---- MODULE Spec2Model ----
(***************************************************************************)
(* Model of the rule-based analyzer of codereview-ai:                      *)
(*   backend/models/analyzer.py  PythonCodeAnalyzer                        *)
(*   backend/main.py             the module-level analyzer and its callers *)
(*                                                                         *)
(* A source text is modelled by its statements (kind, identifier, number   *)
(* of physical lines, identifiers it mentions, nested bodies).  parse      *)
(* builds the tree ast.parse builds from it (line numbers, BoolOp          *)
(* grouping), Words gives the identifier tokens the regular expression of  *)
(* the unused-import check scans.  Identifiers are tuples of characters    *)
(* so that the naming patterns can be evaluated character by character.    *)
(***************************************************************************)
EXTENDS Integers, Sequences, FiniteSets, TLC

VARIABLES
    pc,         \* position of the single analyzer call in progress
    code,       \* the source text handed to analyze_code
    tree,       \* ast.parse(code), or the SyntaxError it raised
    issues,     \* PythonCodeAnalyzer.issues (self.issues)
    ran,        \* checks executed so far by the current call, in order
    quality_score,    \* local quality_score of analyze_code
    result,     \* value returned by analyze_code
    http,       \* status of the last HTTP response
    watched,    \* a source text whose results are compared across calls
    memo,       \* first result returned for the watched source text
    history     \* 0: nothing returned for the watched text yet; 1: its first
                \* result is kept; 2: a call on another text has since returned
                \* issues; 3: the watched text has been analysed again after it

vars == <<pc, code, tree, issues, ran, quality_score, result, http, watched, memo, history>>

----------------------------------------------------------------------------
(* Bounds of the model                                                     *)

MaxTop == 2          \* top-level statements in a generated source text
MaxRepeat == 6       \* copies of one statement in a repetitive source text

----------------------------------------------------------------------------
(* Program constants                                                       *)

LongFunction == 50
MediumFunction == 20
MaxBoolOps == 3
MaxOccurrences == 1
ErrorWeight == -20
WarningWeight == -10
InfoWeight == -5
BaseScore == 100
MinScore == 0
PerfectScore == 100
SyntaxErrorScore == 0

None == "None"

\* A line number that is None (or 0): falsy in `x or y`.
NoLine == 0

----------------------------------------------------------------------------
(* Characters and identifiers                                              *)

Lower == {"a","b","c","d","e","f","g","h","i","j","k","l","m",
          "n","o","p","q","r","s","t","u","v","w","x","y","z"}
Upper == {"A","B","C","D","E","F","G","H","I","J","K","L","M",
          "N","O","P","Q","R","S","T","U","V","W","X","Y","Z"}
Digit == {"0","1","2","3","4","5","6","7","8","9"}
Underscore == {"_"}

n_os == <<"o","s">>
n_path == <<"p","a","t","h">>
n_sys == <<"s","y","s">>
n_x == <<"x">>
n_f == <<"f">>
n_g2 == <<"g","_","2">>
n_F == <<"F">>
n_getX == <<"g","e","t","X">>
n_dunder == <<"_","_","I","n","i","t">>
n_init == <<"_","_","i","n","i","t","_","_">>
n_C == <<"C">>
n_My_C == <<"M","y","_","C">>
n_calculateTotal == <<"c","a","l","c","u","l","a","t","e","T","o","t","a","l">>
n_userAccount == <<"u","s","e","r","A","c","c","o","u","n","t">>

----------------------------------------------------------------------------
(* Source texts                                                            *)

\* One statement of a source text.  lines is the number of physical lines
\* of a simple statement; words are the identifier tokens it contains.
Stmt(kind, name, lines, words, names, module, ops, value, body, orelse) ==
    [kind |-> kind, name |-> name, lines |-> lines, words |-> words,
     names |-> names, module |-> module, ops |-> ops, value |-> value,
     body |-> body, orelse |-> orelse]

Blank == Stmt("Blank", <<>>, 1, <<>>, <<>>, <<>>, <<>>, None, <<>>, <<>>)
Simple(n, words) == Stmt("Assign", <<>>, n, words, <<>>, <<>>, <<>>, None, <<>>, <<>>)
ExprStmt(value, n, words) == Stmt("Expr", <<>>, n, words, <<>>, <<>>, <<>>, value, <<>>, <<>>)
Doc == ExprStmt("str", 1, <<>>)
Import(names) == Stmt("Import", <<>>, 1, <<>>, names, <<>>, <<>>, None, <<>>, <<>>)
ImportFrom(module, names) == Stmt("ImportFrom", <<>>, 1, <<>>, names, module, <<>>, None, <<>>, <<>>)
Def(name, body) == Stmt("FunctionDef", name, 1, <<>>, <<>>, <<>>, <<>>, None, body, <<>>)
AsyncDef(name, body) == Stmt("AsyncFunctionDef", name, 1, <<>>, <<>>, <<>>, <<>>, None, body, <<>>)
Class(name, body) == Stmt("ClassDef", name, 1, <<>>, <<>>, <<>>, <<>>, None, body, <<>>)
If(ops, body, orelse) == Stmt("If", <<>>, 1, <<>>, <<>>, <<>>, ops, None, body, orelse)
For(body) == Stmt("For", <<>>, 1, <<>>, <<>>, <<>>, <<>>, None, body, <<>>)

Compound == {"FunctionDef", "AsyncFunctionDef", "ClassDef", "If", "For"}

\* A source text: its lines, and the SyntaxError ast.parse raises on it
\* (<<>> when the text is well formed, <<e>> otherwise).  A text always has at least one
\* line; a Blank is an empty line (the last one stands for the empty piece
\* that follows a trailing newline).
Source(stmts, error) == [stmts |-> stmts, error |-> error]

SyntaxError(lineno) == [lineno |-> lineno, msg |-> "invalid syntax"]

RECURSIVE Span(_), SpanAll(_)
\* Physical lines of one statement: a compound statement is its header line,
\* its body and (for an If) its elif chain.
Span(s) ==
    IF s.kind \in Compound THEN 1 + SpanAll(s.body) + SpanAll(s.orelse)
    ELSE s.lines

SpanAll(ss) == IF ss = <<>> THEN 0 ELSE Span(Head(ss)) + SpanAll(Tail(ss))

\* len(code.split('\n'))
lines_of_code(c) == SpanAll(c.stmts)

\* not submission.code.strip()
IsBlankText(c) == \A i \in 1..Len(c.stmts) : c.stmts[i].kind = "Blank"

RECURSIVE Flatten(_)
Flatten(ss) == IF ss = <<>> THEN <<>> ELSE Head(ss) \o Flatten(Tail(ss))

RECURSIVE Words(_)
\* The identifier tokens of the text, in text order: what \b...\b can match.
\* Keywords are left out: no imported name can equal one.
Words(ss) ==
    IF ss = <<>> THEN <<>>
    ELSE LET s == Head(ss)
             own == CASE s.kind \in {"FunctionDef", "AsyncFunctionDef", "ClassDef"} -> <<s.name>>
                      [] s.kind = "If" -> [i \in 1..(Len(s.ops) + 1) |-> n_x]
                      [] s.kind = "Import" -> Flatten(s.names)
                      [] s.kind = "ImportFrom" -> s.module \o Flatten(s.names)
                      [] OTHER -> s.words
         IN own \o Words(s.body) \o Words(s.orelse) \o Words(Tail(ss))

----------------------------------------------------------------------------
(* ast.parse                                                               *)

NameNode == [kind |-> "Name"]
BoolOp(op, values) == [kind |-> "BoolOp", op |-> op, values |-> values]

RECURSIVE AndRuns(_, _)
\* The operands of an unparenthesised test are grouped by precedence: `or`
\* separates the groups, each group is a chain of `and`.  AndRuns gives the
\* number of `and` in each group.
AndRuns(ops, n) ==
    IF ops = <<>> THEN <<n>>
    ELSE IF Head(ops) = "or" THEN <<n>> \o AndRuns(Tail(ops), 0)
    ELSE AndRuns(Tail(ops), n + 1)

\* A chain of the same operator is ONE BoolOp node with all its operands.
AndExpr(n) == IF n = 0 THEN NameNode ELSE BoolOp("And", [i \in 1..(n + 1) |-> NameNode])

ParseTest(ops) ==
    LET runs == AndRuns(ops, 0)
    IN IF Len(runs) = 1 THEN AndExpr(runs[1])
       ELSE BoolOp("Or", [i \in 1..Len(runs) |-> AndExpr(runs[i])])

RECURSIVE ParseStmts(_, _)
\* The statement nodes of a block whose first line is ln.
ParseStmts(ss, ln) ==
    IF ss = <<>> THEN <<>>
    ELSE LET s == Head(ss)
             node == [kind |-> s.kind, name |-> s.name,
                      lineno |-> ln, end_lineno |-> ln + Span(s) - 1,
                      names |-> s.names, value |-> s.value,
                      test |-> IF s.kind = "If" THEN <<ParseTest(s.ops)>> ELSE <<>>,
                      body |-> ParseStmts(s.body, ln + 1),
                      orelse |-> ParseStmts(s.orelse, ln + 1 + SpanAll(s.body))]
         IN (IF s.kind = "Blank" THEN <<>> ELSE <<node>>)
            \o ParseStmts(Tail(ss), ln + Span(s))

\* ast.parse(code): a Module, or the SyntaxError raised.
parse(c) ==
    IF c.error # <<>>
    THEN [kind |-> "SyntaxError", lineno |-> c.error[1].lineno, msg |-> c.error[1].msg]
    ELSE [kind |-> "Module", body |-> ParseStmts(c.stmts, 1)]

\* ast.iter_child_nodes, restricted to the node kinds some check looks at
\* and the nodes that contain them (arguments, targets, aliases and operands
\* other than names are leaves no check inspects; leaving them out does not
\* change the relative order of the others in the walk).
iter_child_nodes(n) ==
    CASE n.kind = "Module" -> n.body
      [] n.kind \in {"FunctionDef", "AsyncFunctionDef", "ClassDef"} -> n.body
      [] n.kind = "If" -> n.test \o n.body \o n.orelse
      [] n.kind = "For" -> n.body \o n.orelse
      [] n.kind = "BoolOp" -> <<[kind |-> n.op]>> \o n.values
      [] OTHER -> <<>>

RECURSIVE WalkQueue(_)
\* ast.walk: breadth first, a queue that starts with the root.
WalkQueue(todo) ==
    IF todo = <<>> THEN <<>>
    ELSE <<Head(todo)>> \o WalkQueue(Tail(todo) \o iter_child_nodes(Head(todo)))

walk(n) == WalkQueue(<<n>>)

----------------------------------------------------------------------------
(* Issues and the score                                                    *)

\* dataclass CodeIssue
CodeIssue(line_number, issue_type, severity, message, suggestion) ==
    [line_number |-> line_number, issue_type |-> issue_type,
     severity |-> severity, message |-> message, suggestion |-> suggestion]

\* The dict analyze_code builds from one CodeIssue.
IssueDict(issue) ==
    [line |-> issue.line_number, type |-> issue.issue_type,
     severity |-> issue.severity, message |-> issue.message,
     suggestion |-> issue.suggestion]

\* Variant: a warning weighs no more than an info.
severity_weights_flat_warning(severity) ==
    CASE severity = "error" -> ErrorWeight
      [] severity = "warning" -> InfoWeight
      [] severity = "info" -> InfoWeight

\* Variant: an info costs nothing.
severity_weights_info_free(severity) ==
    CASE severity = "error" -> ErrorWeight
      [] severity = "warning" -> WarningWeight
      [] severity = "info" -> 0

\* severity_weights
severity_weights(severity) ==
    CASE severity = "error" -> ErrorWeight
      [] severity = "warning" -> WarningWeight
      [] severity = "info" -> InfoWeight

RECURSIVE total_deduction(_)
\* sum(severity_weights[issue.severity] for issue in self.issues)
total_deduction(iss) ==
    IF iss = <<>> THEN 0
    ELSE severity_weights(Head(iss).severity) + total_deduction(Tail(iss))

Max(a, b) == IF a >= b THEN a ELSE b

\* round(score, 1): the score is an integer, which round returns unchanged.
Round1(score) == score

\* Variant: the deductions are applied without max(0, ...).
calculate_quality_score_unclamped(iss) ==
    IF iss = <<>> THEN PerfectScore
    ELSE Round1(BaseScore + total_deduction(iss))

\* _calculate_quality_score
calculate_quality_score(iss) ==
    IF iss = <<>> THEN PerfectScore
    ELSE Round1(Max(MinScore, BaseScore + total_deduction(iss)))

----------------------------------------------------------------------------
(* The five checks: each gives the issues it appends to self.issues        *)

\* end_line = node.end_lineno or node.lineno; end_line - node.lineno + 1
func_length(node) ==
    LET end_line == IF node.end_lineno = NoLine THEN node.lineno ELSE node.end_lineno
    IN end_line - node.lineno + 1

\* Variant: the thresholds are compared with >= instead of >.
FunctionLengthIssue_Inclusive(node) ==
    IF node.kind = "FunctionDef"
    THEN IF func_length(node) >= LongFunction
         THEN <<CodeIssue(node.lineno, "function_length", "warning",
                          <<"Function", node.name, "is", func_length(node), "lines long">>,
                          "Consider breaking this function into smaller functions")>>
         ELSE IF func_length(node) >= MediumFunction
         THEN <<CodeIssue(node.lineno, "function_length", "info",
                          <<"Function", node.name, "is", func_length(node), "lines long">>,
                          "Consider if this function could be simplified")>>
         ELSE <<>>
    ELSE <<>>

\* Body of the loop of _check_function_length for one node of the walk.
FunctionLengthIssue(node) ==
    IF node.kind = "FunctionDef"
    THEN IF func_length(node) > LongFunction
         THEN <<CodeIssue(node.lineno, "function_length", "warning",
                          <<"Function", node.name, "is", func_length(node), "lines long">>,
                          "Consider breaking this function into smaller functions")>>
         ELSE IF func_length(node) > MediumFunction
         THEN <<CodeIssue(node.lineno, "function_length", "info",
                          <<"Function", node.name, "is", func_length(node), "lines long">>,
                          "Consider if this function could be simplified")>>
         ELSE <<>>
    ELSE <<>>

check_function_length(t) ==
    LET w == walk(t) IN Flatten([i \in 1..Len(w) |-> FunctionLengthIssue(w[i])])

\* Variant: any leading expression statement counts as a docstring.
has_docstring_any_expr(node) ==
    /\ node.body # <<>>
    /\ node.body[1].kind = "Expr"

\* has_docstring
has_docstring(node) ==
    /\ node.body # <<>>
    /\ node.body[1].kind = "Expr"
    /\ node.body[1].value = "str"

MissingDocstringIssue(node) ==
    IF node.kind \in {"FunctionDef", "ClassDef"} /\ ~has_docstring(node)
    THEN LET node_type == IF node.kind = "FunctionDef" THEN "function" ELSE "class"
             title == IF node.kind = "FunctionDef" THEN "Function" ELSE "Class"
         IN <<CodeIssue(node.lineno, "missing_docstring", "info",
                        <<title, node.name, "is missing a docstring">>,
                        <<"Add a docstring to document what this", node_type, "does">>)>>
    ELSE <<>>

check_missing_docstrings(t) ==
    LET w == walk(t) IN Flatten([i \in 1..Len(w) |-> MissingDocstringIssue(w[i])])

\* The names one node adds to `imports`: alias.name.split('.')[0] for an
\* Import, alias.name for an ImportFrom.  A name is its dotted segments.
CollectedNames(node) ==
    CASE node.kind = "Import" -> [i \in 1..Len(node.names) |-> <<Head(node.names[i])>>]
      [] node.kind = "ImportFrom" -> node.names
      [] OTHER -> <<>>

collect_imports(t) ==
    LET w == walk(t) IN Flatten([i \in 1..Len(w) |-> CollectedNames(w[i])])

\* len(re.findall(rf'\b{re.escape(import_name)}\b', code)) for a name of
\* one segment: the identifier tokens of the text equal to it.
matches(import_name, c) ==
    LET ws == Words(c.stmts)
    IN Cardinality({i \in 1..Len(ws) : <<ws[i]>> = import_name})

\* import_name in [alias.name for alias in node.names]
NamesImport(node, import_name) ==
    /\ node.kind \in {"Import", "ImportFrom"}
    /\ \E i \in 1..Len(node.names) : node.names[i] = import_name

\* The inner loop: the first node of the walk that names the import.
UnusedImportIssue(import_name, t, c) ==
    LET w == walk(t)
        hits == {i \in 1..Len(w) : NamesImport(w[i], import_name)}
    IN IF matches(import_name, c) <= MaxOccurrences /\ hits # {}
       THEN LET first == CHOOSE i \in hits : \A j \in hits : i <= j
            IN <<CodeIssue(w[first].lineno, "unused_import", "info",
                           <<"Import", import_name, "appears to be unused">>,
                           "Remove unused imports to keep code clean")>>
       ELSE <<>>

check_unused_imports(t, c) ==
    LET imports == collect_imports(t)
    IN Flatten([i \in 1..Len(imports) |-> UnusedImportIssue(imports[i], t, c)])

\* len([n for n in ast.walk(node.test) if isinstance(n, (ast.And, ast.Or))])
bool_ops(test) ==
    LET w == walk(test) IN Cardinality({i \in 1..Len(w) : w[i].kind \in {"And", "Or"}})

ComplexConditionIssue(node) ==
    IF node.kind = "If" /\ bool_ops(node.test[1]) > MaxBoolOps
    THEN <<CodeIssue(node.lineno, "complex_condition", "warning",
                     "Complex conditional statement with multiple boolean operators",
                     "Consider breaking this into multiple conditions or using a helper function")>>
    ELSE <<>>

check_complex_conditions(t) ==
    LET w == walk(t) IN Flatten([i \in 1..Len(w) |-> ComplexConditionIssue(w[i])])

\* re.match(r'^[a-z_][a-z0-9_]*$', name)
SnakeCase(name) ==
    /\ Len(name) >= 1
    /\ name[1] \in Lower \cup Underscore
    /\ \A i \in 2..Len(name) : name[i] \in Lower \cup Digit \cup Underscore

\* name.startswith('__')
StartsWithDunder(name) == Len(name) >= 2 /\ name[1] = "_" /\ name[2] = "_"

\* re.match(r'^[A-Z][a-zA-Z0-9]*$', name)
PascalCase(name) ==
    /\ Len(name) >= 1
    /\ name[1] \in Upper
    /\ \A i \in 2..Len(name) : name[i] \in Lower \cup Upper \cup Digit

NamingConventionIssue(node) ==
    IF node.kind = "FunctionDef"
    THEN IF ~SnakeCase(node.name) /\ ~StartsWithDunder(node.name)
         THEN <<CodeIssue(node.lineno, "naming_convention", "info",
                          <<"Function", node.name, "doesn't follow snake_case convention">>,
                          "Use snake_case for function names (e.g., my_function)")>>
         ELSE <<>>
    ELSE IF node.kind = "ClassDef"
    THEN IF ~PascalCase(node.name)
         THEN <<CodeIssue(node.lineno, "naming_convention", "info",
                          <<"Class", node.name, "doesn't follow PascalCase convention">>,
                          "Use PascalCase for class names (e.g., MyClass)")>>
         ELSE <<>>
    ELSE <<>>

check_naming_conventions(t) ==
    LET w == walk(t) IN Flatten([i \in 1..Len(w) |-> NamingConventionIssue(w[i])])

----------------------------------------------------------------------------
(* The source texts submitted                                              *)

d_os == <<n_os>>
d_os_path == <<n_os, n_path>>
d_path == <<n_path>>
d_sys == <<n_sys>>

And3 == <<"and", "and", "and">>
And4 == <<"and", "and", "and", "and">>
Mixed4 == <<"and", "or", "and", "or">>
Mixed5 == <<"and", "or", "and", "or", "and">>

\* Statements combined with one another in the generated texts.
CoreStmts ==
    { Import(<<d_os>>),                       \* import os
      Import(<<d_os_path>>),                  \* import os.path
      ImportFrom(d_os, <<d_path>>),           \* from os import path
      Simple(1, <<n_os, n_path>>),            \* p = os.path
      \* a 52-line camelCase function without docstring that imports os
      \* and tests a condition of five operators
      Def(n_getX, <<Import(<<d_os>>), If(Mixed5, <<Simple(1, <<>>)>>, <<>>),
                    Simple(48, <<>>)>>),
      \* a documented class with an undocumented method
      Class(n_My_C, <<Doc, Def(n_init, <<Simple(1, <<>>)>>)>>) }

\* Statements submitted on their own.
SingleStmts ==
    { Import(<<d_sys, d_os>>),                         \* import sys, os
      Def(n_f, <<Doc>>),                               \*  2 lines, documented
      Def(n_g2, <<Simple(19, <<>>)>>),                 \* 20 lines
      Def(n_getX, <<Simple(19, <<>>), Doc>>),          \* 21 lines, string not first
      Def(n_g2, <<Doc, Simple(48, <<>>)>>),            \* 50 lines, documented
      Def(n_dunder, <<ExprStmt("num", 50, <<>>)>>),    \* 51 lines, first statement a number
      AsyncDef(n_F, <<Simple(50, <<>>)>>),             \* async def, 51 lines
      Class(n_C, <<Import(<<d_os>>), Class(n_C, <<Doc>>)>>),
      \* a nested function and an import whose name a string mentions
      Def(n_f, <<ExprStmt("str", 1, <<n_sys>>),
                 Def(n_F, <<Simple(20, <<>>)>>), Import(<<d_sys>>)>>),
      If(And3, <<Simple(1, <<>>)>>, <<>>),
      If(And4, <<Simple(1, <<>>)>>, <<>>),
      If(Mixed5, <<Simple(1, <<>>)>>, <<>>),
      \* if / elif, the if holding a nested if
      If(<<>>, <<If(Mixed4, <<Simple(1, <<>>)>>, <<>>)>>,
               <<If(Mixed5, <<Simple(1, <<>>)>>, <<>>)>>),
      Def(n_f, <<Doc, For(<<If(<<"or", "or", "or", "or", "or">>, <<Simple(1, <<>>)>>, <<>>)>>)>>) }

\* Well-formed texts: 1..MaxTop core statements, or one single statement.
Programs ==
    UNION { { Source(ss, <<>>) : ss \in [1..n -> CoreStmts] } : n \in 1..MaxTop }
    \cup { Source(<<s>>, <<>>) : s \in SingleStmts }

\* The same long, undocumented, badly named function k times.
Repeated(k) == Source([i \in 1..k |-> Def(n_getX, <<Simple(50, <<>>)>>)], <<>>)

\* Texts ast.parse rejects, with the line the SyntaxError carries (if any).
Broken ==
    { Source(ss, <<SyntaxError(ln)>>) :
        ss \in {<<Simple(1, <<>>)>>, <<Import(<<d_os>>), Def(n_F, <<Simple(50, <<>>)>>)>>},
        ln \in {NoLine, 1, 2} }

\* Empty and whitespace-only texts, and a text with a trailing newline.
BlankTexts == { Source(<<Blank>>, <<>>), Source(<<Blank, Blank>>, <<>>) }

Sources ==
    Programs \cup { Repeated(k) : k \in 1..MaxRepeat } \cup Broken \cup BlankTexts
    \cup { Source(<<Import(<<d_os>>), Blank>>, <<>>) }

\* sample_code of the demo endpoint.
sample_code ==
    Source(<<Blank,
             Def(n_calculateTotal,
                 <<Simple(1, <<>>),
                   For(<<If(And3, <<Simple(1, <<>>), Simple(1, <<>>),
                                    Simple(1, <<>>), Simple(1, <<>>)>>, <<>>)>>),
                   Simple(1, <<>>)>>),
             Blank,
             Class(n_userAccount, <<Def(n_init, <<Simple(1, <<>>), Simple(1, <<>>)>>)>>),
             Blank>>, <<>>)

\* The texts whose results are compared from one call to the next.
Watched ==
    { Source(<<Import(<<d_os>>)>>, <<>>),
      Source(<<Simple(1, <<>>)>>, <<SyntaxError(NoLine)>>) }

----------------------------------------------------------------------------
(* The analyzer instance and its callers                                   *)

\* analyzer = PythonCodeAnalyzer(): __init__
Init ==
    /\ pc = "idle"
    /\ code = <<>>
    /\ tree = <<>>
    /\ issues = <<>>
    /\ ran = <<>>
    /\ quality_score = <<>>
    /\ result = <<>>
    /\ http = 0
    /\ watched \in Watched
    /\ memo = <<>>
    /\ history = 0

\* Variant: analyze_code does not reset self.issues.
IssuesAtEntry_Kept(old) == old

\* self.issues = [] on entry of analyze_code
IssuesAtEntry(old) == <<>>

\* Entry of analyze_code(c): reset the issues, parse.  The handlers of
\* main.py are coroutines that call the analyzer without awaiting anything,
\* so a call starts only when no other call is in progress (pc = "idle").
Enter(c) ==
    /\ pc = "idle"
    /\ code' = <<c>>
    /\ issues' = IssuesAtEntry(issues)
    /\ tree' = <<parse(c)>>
    /\ pc' = IF parse(c).kind = "SyntaxError" THEN "except" ELSE "function_length"
    /\ ran' = <<>>
    /\ quality_score' = <<>>
    /\ result' = <<>>
    /\ http' = 0
    /\ UNCHANGED <<watched, memo, history>>

\* POST /analyze with an empty or whitespace-only text: 400, no analysis.
Reject(c) ==
    /\ pc = "idle"
    /\ IsBlankText(c)
    /\ http' = 400
    /\ UNCHANGED <<pc, code, tree, issues, ran, quality_score, result, watched, memo, history>>

\* POST /analyze: analyzer.analyze_code(submission.code)
analyze_code(c) ==
    /\ ~IsBlankText(c)
    /\ Enter(c)

\* GET /analyze/demo: analyzer.analyze_code(sample_code)
demo_analysis == Enter(sample_code)

\* Variant: a check puts its issues in front of the earlier ones.
Appended_Front(old, new) == new \o old

\* self.issues.append(...) by a check: the new issues go after the old.
Appended(old, new) == old \o new

\* One check of the battery: it appends its issues and the next one runs.
RunCheck(at, new, next) ==
    /\ pc = at
    /\ issues' = Appended(issues, new)
    /\ ran' = Append(ran, at)
    /\ pc' = next
    /\ UNCHANGED <<code, tree, quality_score, result, http, watched, memo, history>>

RunFunctionLength ==
    pc = "function_length"
    /\ RunCheck("function_length", check_function_length(tree[1]), "missing_docstring")

RunMissingDocstrings ==
    pc = "missing_docstring"
    /\ RunCheck("missing_docstring", check_missing_docstrings(tree[1]), "unused_import")

RunUnusedImports ==
    pc = "unused_import"
    /\ RunCheck("unused_import", check_unused_imports(tree[1], code[1]), "complex_condition")

RunComplexConditions ==
    pc = "complex_condition"
    /\ RunCheck("complex_condition", check_complex_conditions(tree[1]), "naming_convention")

RunNamingConventions ==
    pc = "naming_convention"
    /\ RunCheck("naming_convention", check_naming_conventions(tree[1]), "score")

\* quality_score = self._calculate_quality_score()
Score ==
    /\ pc = "score"
    /\ quality_score' = <<calculate_quality_score(issues)>>
    /\ pc' = "return"
    /\ UNCHANGED <<code, tree, issues, ran, result, http, watched, memo, history>>

\* The dict returned by the try block.
AnalysisResult(q, iss, c) ==
    [quality_score |-> q,
     issues |-> [i \in 1..Len(iss) |-> IssueDict(iss[i])],
     total_issues |-> Len(iss),
     lines_of_code |-> lines_of_code(c)]

\* Variant: the except block scores its one issue like any other.
SyntaxErrorResult_Scored(e, c) ==
    [quality_score |-> Max(MinScore, BaseScore + ErrorWeight),
     issues |-> <<[line |-> IF e.lineno = NoLine THEN 1 ELSE e.lineno,
                   type |-> "syntax_error",
                   severity |-> "error",
                   message |-> <<"Syntax error:", e.msg>>,
                   suggestion |-> "Fix the syntax error before analysis can continue"]>>,
     total_issues |-> 1,
     lines_of_code |-> lines_of_code(c)]

\* The dict returned by the except block.
SyntaxErrorResult(e, c) ==
    [quality_score |-> SyntaxErrorScore,
     issues |-> <<[line |-> IF e.lineno = NoLine THEN 1 ELSE e.lineno,
                   type |-> "syntax_error",
                   severity |-> "error",
                   message |-> <<"Syntax error:", e.msg>>,
                   suggestion |-> "Fix the syntax error before analysis can continue"]>>,
     total_issues |-> 1,
     lines_of_code |-> lines_of_code(c)]

\* The caller receives r; the first result for the watched text is kept.
Deliver(r) ==
    /\ result' = <<r>>
    /\ http' = 200
    /\ memo' = IF code[1] = watched /\ memo = <<>> THEN <<r>> ELSE memo
    /\ history' = CASE history = 0 /\ code[1] = watched -> 1
                     [] history = 1 /\ code[1] # watched /\ r.issues # <<>> -> 2
                     [] history = 2 /\ code[1] = watched -> 3
                     [] OTHER -> history
    /\ pc' = "idle"
    /\ UNCHANGED <<code, tree, issues, ran, quality_score, watched>>

Return ==
    /\ pc = "return"
    /\ Deliver(AnalysisResult(quality_score[1], issues, code[1]))

Except ==
    /\ pc = "except"
    /\ Deliver(SyntaxErrorResult(tree[1], code[1]))

Next ==
    \/ \E c \in Sources : analyze_code(c)
    \/ \E c \in Sources : Reject(c)
    \/ demo_analysis
    \/ RunFunctionLength
    \/ RunMissingDocstrings
    \/ RunUnusedImports
    \/ RunComplexConditions
    \/ RunNamingConventions
    \/ Score
    \/ Return
    \/ Except

Spec == Init /\ [][Next]_vars

----------------------------------------------------------------------------
(* Properties                                                              *)

\* analyze_code has returned to its caller.
Returned == pc = "idle" /\ result # <<>>

\* The text of the current call is one ast.parse rejects.
ParseFailed == code # <<>> /\ code[1].error # <<>>

\* The number of issues of one type at one line.
CountAt(ds, type, line) ==
    Cardinality({i \in 1..Len(ds) : ds[i].type = type /\ ds[i].line = line})

RECURSIVE SumDeductions(_)
SumDeductions(ds) ==
    IF ds = <<>> THEN 0
    ELSE (CASE Head(ds).severity = "error" -> -20
            [] Head(ds).severity = "warning" -> -10
            [] Head(ds).severity = "info" -> -5)
         + SumDeductions(Tail(ds))

\* max(0, 100 + sum of the per-issue deductions)
ExpectedScore(ds) ==
    IF 100 + SumDeductions(ds) < 0 THEN 0 ELSE 100 + SumDeductions(ds)

\* C1: when ast.parse raises a SyntaxError, analyze_code runs none of the
\* five checks and returns a result with exactly one issue, of type
\* syntax_error and severity error, total_issues 1 and quality_score 0.
C1_SyntaxErrorShortCircuits ==
    ParseFailed =>
        /\ pc \in {"except", "idle"}
        /\ ran = <<>>
        /\ issues = <<>>
        /\ Returned =>
            /\ Len(result[1].issues) = 1
            /\ result[1].issues[1].type = "syntax_error"
            /\ result[1].issues[1].severity = "error"
            /\ result[1].total_issues = 1
            /\ result[1].quality_score = 0

\* A rejected text whose statements would have raised issues had the checks
\* run, the SyntaxError carrying line 2.
C1_Witness ==
    /\ ParseFailed
    /\ Returned
    /\ Len(code[1].stmts) = 2
    /\ result[1].issues[1].line = 2
    /\ result[1].quality_score = 0

\* C2: the result of a call depends only on its source text: a later call
\* on the watched text returns the result the first call on it returned,
\* whatever ran in between, and every call starts from an empty issue list.
C2_CallsAreIndependent ==
    /\ (Returned /\ code[1] = watched /\ memo # <<>>) => result = memo
    /\ (pc \in {"function_length", "except"}) => issues = <<>>

\* The watched text analysed again after a call on another text that
\* returned issues.
C2_Witness ==
    /\ history = 3
    /\ Returned
    /\ code[1] = watched
    /\ result = memo

\* C3 as stated: every result, the parse-failure result included, has
\* quality_score = max(0, 100 + sum of the deductions of its own issues).
C3_ScoreOfEveryResult ==
    Returned => result[1].quality_score = ExpectedScore(result[1].issues)

\* C3 amended: every result of a text that parses has quality_score =
\* max(0, 100 + sum of the deductions of its own issues), with error -20,
\* warning -10, info -5; the parse-failure result has quality_score 0.
C3_ScoreOfParsedResults ==
    Returned =>
        IF ParseFailed
        THEN result[1].quality_score = 0
        ELSE result[1].quality_score = ExpectedScore(result[1].issues)

\* A result with warnings and infos whose score is neither bound.
C3_Witness ==
    /\ Returned
    /\ ~ParseFailed
    /\ \E i \in 1..Len(result[1].issues) : result[1].issues[i].severity = "warning"
    /\ \E i \in 1..Len(result[1].issues) : result[1].issues[i].severity = "info"
    /\ result[1].quality_score = 100 + SumDeductions(result[1].issues)
    /\ result[1].quality_score \in 1..99

\* C4: 0 <= quality_score <= 100 for every result.
C4_ScoreBounds ==
    Returned => (result[1].quality_score >= 0 /\ result[1].quality_score <= 100)

\* A result whose deductions exceed 100.
C4_Witness ==
    /\ Returned
    /\ ~ParseFailed
    /\ 100 + SumDeductions(result[1].issues) < 0
    /\ result[1].quality_score = 0

\* C5: the issues list of a result is empty iff its quality_score is 100.
C5_EmptyIffPerfect ==
    Returned => ((result[1].issues = <<>>) <=> (result[1].quality_score = 100))

\* A text with a function definition and no issue.
C5_Witness ==
    /\ Returned
    /\ result[1].issues = <<>>
    /\ result[1].quality_score = 100
    /\ \E i \in 1..Len(tree[1].body) : tree[1].body[i].kind = "FunctionDef"

\* The nodes of the tree of the current call, in walk order.
Nodes == walk(tree[1])

\* A result of a text that parsed.
Analysed == Returned /\ ~ParseFailed

CountSeverityAt(ds, type, line, severity) ==
    Cardinality({i \in 1..Len(ds) :
        ds[i].type = type /\ ds[i].line = line /\ ds[i].severity = severity})

RECURSIVE ConnectivesIn(_)
\* The and / or operators written in a test: a BoolOp of n operands stands
\* for n - 1 of them.
ConnectivesIn(w) ==
    IF w = <<>> THEN 0
    ELSE (IF Head(w).kind = "BoolOp" THEN Len(Head(w).values) - 1 ELSE 0)
         + ConnectivesIn(Tail(w))

\* C6: every `if`, at any depth, whose test holds 4 or more and / or
\* operators yields exactly one complex_condition warning at its line, and
\* an `if` with 3 or fewer yields none.
C6_FourConnectivesAreComplex ==
    Analysed =>
        \A i \in 1..Len(Nodes) :
            Nodes[i].kind = "If" =>
                IF ConnectivesIn(walk(Nodes[i].test[1])) >= 4
                THEN /\ CountAt(result[1].issues, "complex_condition", Nodes[i].lineno) = 1
                     /\ CountSeverityAt(result[1].issues, "complex_condition",
                                        Nodes[i].lineno, "warning") = 1
                ELSE CountAt(result[1].issues, "complex_condition", Nodes[i].lineno) = 0

\* The unused_import issues of a result that name import_name.
IssuesNaming(ds, import_name) ==
    {i \in 1..Len(ds) : ds[i].type = "unused_import" /\ ds[i].message[2] = import_name}

\* The lines of the import statements that introduce import_name.
IntroducingLines(import_name) ==
    {Nodes[i].lineno : i \in {j \in 1..Len(Nodes) :
        \E k \in 1..Len(CollectedNames(Nodes[j])) :
            CollectedNames(Nodes[j])[k] = import_name}}

\* C7: every collected import name with at most one whole-word occurrence
\* in the text gets exactly one unused_import info, at the line of the first
\* import statement that introduces it; a name with two or more gets none.
C7_UnusedImportPerName ==
    Analysed =>
        \A n \in 1..Len(collect_imports(tree[1])) :
            LET import_name == collect_imports(tree[1])[n]
                found == IssuesNaming(result[1].issues, import_name)
            IN IF matches(import_name, code[1]) <= 1
               THEN /\ Cardinality(found) = 1
                    /\ \A i \in found :
                        /\ result[1].issues[i].severity = "info"
                        /\ \A ln \in IntroducingLines(import_name) :
                              result[1].issues[i].line <= ln
                        /\ result[1].issues[i].line \in IntroducingLines(import_name)
               ELSE found = {}

\* end line - start line + 1
SpanOf(node) == node.end_lineno - node.lineno + 1

StartsWithString(node) ==
    node.body # <<>> /\ node.body[1].kind = "Expr" /\ node.body[1].value = "str"

CheckOrder ==
    <<"function_length", "missing_docstring", "unused_import",
      "complex_condition", "naming_convention">>

Rank(type) == CHOOSE i \in 1..Len(CheckOrder) : CheckOrder[i] = type

\* What one check finds in the text of the current call.
FindingsOf(check) ==
    CASE check = "function_length" -> check_function_length(tree[1])
      [] check = "missing_docstring" -> check_missing_docstrings(tree[1])
      [] check = "unused_import" -> check_unused_imports(tree[1], code[1])
      [] check = "complex_condition" -> check_complex_conditions(tree[1])
      [] check = "naming_convention" -> check_naming_conventions(tree[1])

\* C10: the checks run in the fixed order function_length,
\* missing_docstring, unused_import, complex_condition, naming_convention;
\* at every step self.issues is the concatenation of the findings of the
\* checks run so far, each group in discovery order, and the result lists
\* exactly these issues in that order.
C10_IssuesInCheckOrder ==
    (tree # <<>> /\ ~ParseFailed) =>
        /\ ran = SubSeq(CheckOrder, 1, Len(ran))
        /\ issues = Flatten([i \in 1..Len(ran) |-> FindingsOf(ran[i])])
        /\ Returned =>
            /\ ran = CheckOrder
            /\ result[1].issues = [i \in 1..Len(issues) |-> IssueDict(issues[i])]
            /\ \A i, j \in 1..Len(result[1].issues) :
                i < j => Rank(result[1].issues[i].type) <= Rank(result[1].issues[j].type)

\* A result that holds issues of all five checks.
C10_Witness ==
    /\ Analysed
    /\ \A k \in 1..Len(CheckOrder) :
        \E i \in 1..Len(result[1].issues) : result[1].issues[i].type = CheckOrder[k]

====
